---- MODULE Spec2Model ----
(***************************************************************************)
(* Ticket lifecycle and activity log of the support portal (src/app.py).   *)
(*                                                                         *)
(* The state is                                                            *)
(*   tickets, notes  the two tables the handlers write (tickets and        *)
(*                   ticket_notes); a ticket's id is its index;            *)
(*   clock           the value datetime.now() returned last; it advances   *)
(*                   on each close, and every close appends a note, so     *)
(*                   MaxNotes caps it;                                     *)
(*   dialogs         the ticket dialogs open in the browsers of logged-in  *)
(*                   staff: each holds the acting user and the ticket dict *)
(*                   the dashboard handed to ticket_popup. Two dialogs may *)
(*                   hold the same user and dict (two tabs), so they form  *)
(*                   a bag;                                                *)
(*   last            the outcome of the handler that ran last: the request *)
(*                   it was given, the message it showed, the send_email   *)
(*                   calls it made and whether the relay delivered.        *)
(*                                                                         *)
(* Text is a sequence of tokens; the two markers the log renderer looks    *)
(* for, "SYSTEM:" and "EMAIL SENT", are tokens of their own, so that       *)
(* `marker in text` is a membership test on the sequence.                  *)
(***************************************************************************)
EXTENDS Naturals, Sequences, FiniteSets, Bags

VARIABLES tickets, notes, clock, dialogs, last

vars == <<tickets, notes, clock, dialogs, last>>

(* ----------------------------- bounds --------------------------------- *)
\* rows the tickets table may hold
MaxTickets == 1
\* rows the ticket_notes table may hold
MaxNotes == 2
\* ticket dialogs open at once
MaxDialogs == 2

(* ------------------------ values of the program ------------------------ *)
\* Python None / SQL NULL in a column that otherwise holds one string
None == "<null>"
\* SQL NULL in a text column (text is a token sequence)
NullText == <<"<null>">>
\* resolved_at of a row that was never closed
NullTime == 0

AdminEmail == "admin@x"
AgentEmail == "agent@x"
Users == {AdminEmail, AgentEmail}

status_opts == <<"New", "Open", "Deferred", "Closed">>
priority_opts == <<"Low", "Medium", "High">>

\* the options the model's users pick from
StatusInputs == {status_opts[1], status_opts[2], status_opts[4]}
PriorityInputs == {priority_opts[2], priority_opts[3]}

\* role = user_metadata.get("role")
role(u) == IF u = AdminEmail THEN "admin" ELSE IF u = AgentEmail THEN "agent" ELSE None
is_admin(u) == role(u) = "admin"
is_agent(u) == role(u) = "agent"
is_staff(u) == is_admin(u) \/ is_agent(u)

\* texts a member of staff or a customer may type
NoteTexts == {<<>>, <<"called">>, <<"see", "SYSTEM:", "log">>}
ResolutionTexts == {<<>>, <<"fixed">>}
EmailBodies == {<<>>, <<"Hi", "\n", "Best">>}

(* ------------------------------ helpers -------------------------------- *)
\* the test `is not None` in place of truthiness: an empty text passes it
Truthy_IsNotNone(text) == text # NullText

\* Python truthiness of a str: `if resolution_text`, `if email_body`, `if new_note`
Truthy(text) == text # <<>>

\* Python truthiness of a value that is None or a non-empty string
TruthyVal(v) == v # None /\ v # ""

\* f"{v}" of a value that is None or a string
Str(v) == IF v = None THEN "None" ELSE v

\* `marker in note_text`
Contains(text, marker) == \E i \in 1..Len(text) : text[i] = marker

\* ", ".join(changes)
RECURSIVE Join(_)
Join(changes) ==
    IF changes = <<>> THEN <<>>
    ELSE IF Len(changes) = 1 THEN changes[1]
    ELSE changes[1] \o <<",">> \o Join(Tail(changes))

\* f"<field>: {old} -> {new}"
Change(field, old, new) == <<field, Str(old), "->", Str(new)>>

\* the row log_activity inserts
log_activity(ticket_id, message, user) ==
    [ticket_id |-> ticket_id,
     note_text |-> <<"(gear)", "SYSTEM:">> \o message,
     author_email |-> user]

\* the style the log renderer picks for a note_text
RenderKind(note_text) ==
    IF Contains(note_text, "SYSTEM:") THEN "SYSTEM"
    ELSE IF Contains(note_text, "EMAIL SENT") THEN "EMAIL-OUT"
    ELSE "USER-NOTE"

(* --------------------------- session state ----------------------------- *)
NoTicket == [id |-> 0, status |-> "", priority |-> "", assigned_to |-> None]
NoReq == [ticket |-> NoTicket, new_status |-> "", new_priority |-> "",
          new_assign |-> None, text |-> <<>>]

\* the dict df.iloc[idx].to_dict() hands to ticket_popup
Snapshot(t) == [id |-> t, status |-> tickets[t].status, priority |-> tickets[t].priority,
                assigned_to |-> tickets[t].assigned_to]

Outcome(op, u, req, msg, sends, delivered) ==
    [op |-> op, user |-> u, req |-> req, msg |-> msg,
     sends |-> sends, delivered |-> delivered]

\* an open ticket_popup: the session's user and the dict it was called with
Dialog(u, ticket) == [user |-> u, ticket |-> ticket]
IsOpen(u, ticket) == BagIn(Dialog(u, ticket), dialogs)
\* st.rerun() after a successful write closes the dialog
Rerun(u, ticket) == dialogs (-) SetToBag({Dialog(u, ticket)})

Init ==
    /\ tickets = <<>>
    /\ notes = <<>>
    /\ clock = 0
    /\ dialogs = EmptyBag
    /\ last = Outcome("init", None, NoReq, "", 0, FALSE)

(* ------------------------------ handlers ------------------------------- *)
\* "New Ticket" form
NewTicket(pri, smtp_ok) ==
    /\ Len(tickets) < MaxTickets
    /\ tickets' = Append(tickets,
          [status |-> "New", priority |-> pri, assigned_to |-> None,
           resolved_at |-> NullTime, resolution_summary |-> NullText])
    /\ last' = Outcome("new", None, NoReq, "Created", 1, smtp_ok)
    /\ UNCHANGED <<notes, clock, dialogs>>

\* the rows the Staff Dashboard query returns to user u
DashboardRows(u) ==
    IF is_agent(u)
    THEN {t \in DOMAIN tickets :
            tickets[t].assigned_to = None \/ tickets[t].assigned_to = u}
    ELSE DOMAIN tickets

\* selecting a row of the dashboard table opens ticket_popup on a copy of it
SelectTicket(u, t) ==
    /\ is_staff(u)
    /\ t \in DashboardRows(u)
    /\ BagCardinality(dialogs) < MaxDialogs
    /\ dialogs' = dialogs (+) SetToBag({Dialog(u, Snapshot(t))})
    /\ last' = Outcome("select", u, [NoReq EXCEPT !.ticket = Snapshot(t)], "", 0, FALSE)
    /\ UNCHANGED <<tickets, notes, clock>>

(* ---------------------------- ticket_popup ----------------------------- *)
\* the options of the admin's "Assigned To" dropdown (sorted() only orders them)
staff_list(u) ==
    {tickets[t].assigned_to : t \in {x \in DOMAIN tickets : TruthyVal(tickets[x].assigned_to)}}
        \cup {"Unassigned", u}

\* the value the "Assigned To" widget shows when the dialog opens
current_assign(u, ticket) ==
    IF is_admin(u)
    THEN IF ticket.assigned_to \in staff_list(u) THEN ticket.assigned_to ELSE "Unassigned"
    ELSE IF TruthyVal(ticket.assigned_to) THEN ticket.assigned_to ELSE "Unassigned"

\* the values new_assign can take: any option for an admin, the dict's own
\* assigned_to (the text input is disabled) for anyone else
AssignChoices(u, ticket) ==
    IF is_admin(u) THEN staff_list(u) ELSE {ticket.assigned_to}

\* the branch of ticket_popup that draws the "Close & Resolve" button
IsClosing(ticket, new_status) == new_status = "Closed" /\ ticket.status # "Closed"

\* "Close & Resolve": tickets.update({...}).eq("id", ticket['id'])
CloseUpdate(table, ticket, new_priority, new_assign, now, resolution_text) ==
    [table EXCEPT ![ticket.id] =
        [@ EXCEPT !.status = "Closed", !.priority = new_priority,
                  !.assigned_to = new_assign, !.resolved_at = now,
                  !.resolution_summary = resolution_text]]

\* the message log_activity is given on close
CloseMessage(resolution_text) == <<"Ticket Closed.", "Resolution:">> \o resolution_text

\* "Close & Resolve" button
CloseResolve(u, ticket, new_priority, new_assign, resolution_text, smtp_ok) ==
    LET req == [ticket |-> ticket, new_status |-> "Closed", new_priority |-> new_priority,
                new_assign |-> new_assign, text |-> resolution_text]
    IN  /\ IsOpen(u, ticket)
        /\ IsClosing(ticket, "Closed")
        /\ new_assign \in AssignChoices(u, ticket)
        /\ IF Truthy(resolution_text)
           THEN /\ Len(notes) < MaxNotes
                /\ clock' = clock + 1
                /\ tickets' = CloseUpdate(tickets, ticket, new_priority, new_assign,
                                          clock', resolution_text)
                /\ notes' = Append(notes,
                       log_activity(ticket.id, CloseMessage(resolution_text), u))
                \* send_email's result is dropped
                /\ dialogs' = Rerun(u, ticket)
                /\ last' = Outcome("close", u, req, "Resolved!", 1, smtp_ok)
           ELSE /\ last' = Outcome("close", u, req, "Resolution required.", 0, FALSE)
                /\ UNCHANGED <<tickets, notes, clock, dialogs>>

\* step 1 of "Save Changes": the change descriptions, against the dict
Changes(ticket, new_status, new_priority, new_assign) ==
    (IF new_status # ticket.status
       THEN <<Change("Status:", ticket.status, new_status)>> ELSE <<>>)
    \o (IF new_priority # ticket.priority
       THEN <<Change("Priority:", ticket.priority, new_priority)>> ELSE <<>>)
    \o (IF new_assign # ticket.assigned_to
       THEN <<Change("Assignee:", ticket.assigned_to, new_assign)>> ELSE <<>>)

\* an update that writes only the columns whose value differs from the dict
SaveUpdate_ChangedOnly(table, ticket, new_status, new_priority, new_assign) ==
    [table EXCEPT ![ticket.id] =
        [@ EXCEPT !.status = IF new_status # ticket.status THEN new_status ELSE @,
                  !.priority = IF new_priority # ticket.priority THEN new_priority ELSE @,
                  !.assigned_to = IF new_assign # ticket.assigned_to THEN new_assign ELSE @]]

\* step 2 of "Save Changes": tickets.update({...}).eq("id", ticket['id'])
SaveUpdate(table, ticket, new_status, new_priority, new_assign) ==
    [table EXCEPT ![ticket.id] =
        [@ EXCEPT !.status = new_status, !.priority = new_priority,
                  !.assigned_to = new_assign]]

\* step 3 of "Save Changes": the rows appended to ticket_notes
SaveNotes(ticket, changes, new_note, u) ==
    (IF changes # <<>>
       THEN <<log_activity(ticket.id, <<"Updated:">> \o Join(changes), u)>> ELSE <<>>)
    \o (IF Truthy(new_note)
       THEN <<[ticket_id |-> ticket.id, note_text |-> new_note, author_email |-> u]>>
       ELSE <<>>)

\* "Save Changes" button
SaveChanges(u, ticket, new_status, new_priority, new_assign, new_note) ==
    LET changes == Changes(ticket, new_status, new_priority, new_assign)
        rows == SaveNotes(ticket, changes, new_note, u)
        req == [ticket |-> ticket, new_status |-> new_status, new_priority |-> new_priority,
                new_assign |-> new_assign, text |-> new_note]
    IN  /\ IsOpen(u, ticket)
        /\ ~IsClosing(ticket, new_status)
        /\ new_assign \in AssignChoices(u, ticket)
        /\ Len(notes) + Len(rows) <= MaxNotes
        /\ tickets' = SaveUpdate(tickets, ticket, new_status, new_priority, new_assign)
        /\ notes' = notes \o rows
        /\ dialogs' = Rerun(u, ticket)
        /\ last' = Outcome("save", u, req, "Updated!", 0, FALSE)
        /\ UNCHANGED clock

\* a reply handler that drops send_email's result, as the close handler does
ReplyMessage_IgnoresResult(email_body, smtp_ok) ==
    IF Truthy(email_body) THEN "Sent!" ELSE ""

\* what "Send Email" shows: nothing for an empty body, else by send_email's result
ReplyMessage(email_body, smtp_ok) ==
    IF Truthy(email_body) THEN (IF smtp_ok THEN "Sent!" ELSE "Failed.") ELSE ""

\* "Send Email" button
SendReply(u, ticket, email_body, smtp_ok) ==
    LET msg == ReplyMessage(email_body, smtp_ok)
        req == [NoReq EXCEPT !.ticket = ticket, !.text = email_body]
    IN  /\ IsOpen(u, ticket)
        /\ IF msg = "Sent!"
           THEN /\ Len(notes) < MaxNotes
                /\ notes' = Append(notes, log_activity(ticket.id,
                       <<"EMAIL SENT", "TO CUSTOMER:", "\n">> \o email_body, u))
                /\ dialogs' = Rerun(u, ticket)
           ELSE UNCHANGED <<notes, dialogs>>
        /\ last' = Outcome("reply", u, req, msg,
                           IF Truthy(email_body) THEN 1 ELSE 0, Truthy(email_body) /\ smtp_ok)
        /\ UNCHANGED <<tickets, clock>>

(* ---------------------------- specification ---------------------------- *)
Assignees == Users \cup {None, "Unassigned"}

Next ==
    \/ \E pri \in PriorityInputs, ok \in BOOLEAN : NewTicket(pri, ok)
    \/ \E u \in Users, t \in DOMAIN tickets : SelectTicket(u, t)
    \/ \E d \in BagToSet(dialogs), pri \in PriorityInputs, asg \in Assignees,
          res \in ResolutionTexts, ok \in BOOLEAN :
            CloseResolve(d.user, d.ticket, pri, asg, res, ok)
    \/ \E d \in BagToSet(dialogs), st \in StatusInputs, pri \in PriorityInputs,
          asg \in Assignees, note \in NoteTexts :
            SaveChanges(d.user, d.ticket, st, pri, asg, note)
    \/ \E d \in BagToSet(dialogs), body \in EmailBodies, ok \in BOOLEAN :
            SendReply(d.user, d.ticket, body, ok)

Spec == Init /\ [][Next]_vars

(* ------------------------------ properties ----------------------------- *)
\* a column that holds a non-empty text
Populated(text) == text # NullText /\ text # <<>>

\* the rows a step appends to ticket_notes
NewRows == SubSeq(notes', Len(notes) + 1, Len(notes'))
AppendOnly == Len(notes') >= Len(notes) /\ SubSeq(notes', 1, Len(notes)) = notes

\* text ends with the whole of body
EndsWith(text, body) ==
    /\ Len(text) >= Len(body)
    /\ SubSeq(text, Len(text) - Len(body) + 1, Len(text)) = body

\* a note that holds neither marker of the log renderer
PlainNote(text) ==
    text # <<>> /\ ~Contains(text, "SYSTEM:") /\ ~Contains(text, "EMAIL SENT")

\* what new_assign is when the user leaves the dialog's assignee alone
UntouchedAssign(u, ticket) ==
    IF is_admin(u) THEN current_assign(u, ticket) ELSE ticket.assigned_to

\* C1: in every reachable state each ticket has status Closed if and only if its
\* resolution summary is non-empty and its resolution timestamp is set.
C1_ClosedIffResolved ==
    \A t \in DOMAIN tickets :
        (tickets[t].status = "Closed")
            <=> (Populated(tickets[t].resolution_summary)
                    /\ tickets[t].resolved_at # NullTime)

\* C2: a Close & Resolve submitted with an empty resolution summary shows the
\* validation error and changes no ticket row, appends no note and sends no email.
C2_EmptyResolutionChangesNothing ==
    [][(last'.op = "close" /\ last'.req.text = <<>>)
        => /\ last'.msg = "Resolution required."
           /\ tickets' = tickets
           /\ notes' = notes
           /\ last'.sends = 0]_vars

C2_Witness ==
    /\ last.op = "close"
    /\ last.req.text = <<>>
    /\ last.msg = "Resolution required."
    /\ tickets[last.req.ticket.id].status # "Closed"
    /\ notes = <<>>

\* C3: a close or a save by a non-admin leaves the stored assignee of the ticket
\* as it was immediately before the operation.
C3_AgentKeepsStoredAssignee ==
    [][(last'.op \in {"close", "save"} /\ ~is_admin(last'.user))
        => tickets'[last'.req.ticket.id].assigned_to
              = tickets[last'.req.ticket.id].assigned_to]_vars

\* C4: a save that leaves status, priority and assignee as the dialog showed them
\* and supplies a note appends exactly one row, a USER-NOTE, and no SYSTEM row.
C4_NoteOnlyEditLogsOneUserNote ==
    [][(/\ last'.op = "save"
        /\ last'.req.new_status = last'.req.ticket.status
        /\ last'.req.new_priority = last'.req.ticket.priority
        /\ last'.req.new_assign = UntouchedAssign(last'.user, last'.req.ticket)
        /\ PlainNote(last'.req.text))
        => /\ Len(NewRows) = 1
           /\ RenderKind(NewRows[1].note_text) = "USER-NOTE"
           /\ NewRows[1].note_text = last'.req.text]_vars

\* C5: a close whose resolution email fails still persists status Closed with the
\* resolution fields set and the SYSTEM row written, sends once, and does not show
\* the plain success message.
C5_CloseReportsDeliveryFailure ==
    [][(last'.op = "close" /\ last'.req.text # <<>> /\ ~last'.delivered)
        => /\ tickets'[last'.req.ticket.id].status = "Closed"
           /\ tickets'[last'.req.ticket.id].resolution_summary = last'.req.text
           /\ tickets'[last'.req.ticket.id].resolved_at # NullTime
           /\ Len(NewRows) = 1
           /\ RenderKind(NewRows[1].note_text) = "SYSTEM"
           /\ last'.sends = 1
           /\ last'.msg # "Resolved!"]_vars

\* C6: Send Email appends a row holding the whole body if and only if the body is
\* non-empty and delivery succeeded; an empty body sends nothing; a failed delivery
\* shows the failure; the tickets table is never changed.
C6_ReplyLogsIffDelivered ==
    [][(last'.op = "reply")
        => /\ tickets' = tickets
           /\ AppendOnly
           /\ (Len(NewRows) = 1) <=> (last'.req.text # <<>> /\ last'.delivered)
           /\ Len(NewRows) <= 1
           /\ Len(NewRows) = 1 =>
                /\ NewRows[1].ticket_id = last'.req.ticket.id
                /\ EndsWith(NewRows[1].note_text, last'.req.text)
           /\ last'.req.text = <<>> => last'.sends = 0
           /\ (last'.req.text # <<>> /\ ~last'.delivered) => last'.msg = "Failed."]_vars

C6_Witness ==
    /\ last.op = "reply"
    /\ last.msg = "Sent!"
    /\ last.req.text # <<>>
    /\ notes # <<>>
    /\ EndsWith(notes[Len(notes)].note_text, last.req.text)

\* C7: the agent's dashboard holds exactly the tickets that are unassigned (NULL or
\* the "Unassigned" option) or assigned to the agent; the admin's holds all tickets.
C7_AgentSeesUnassignedAndOwn ==
    \A u \in Users :
        DashboardRows(u) =
            IF is_agent(u)
            THEN {t \in DOMAIN tickets : tickets[t].assigned_to \in {None, "Unassigned", u}}
            ELSE DOMAIN tickets

\* C8: a close or a save that repeats the request of the step before it (same user,
\* same ticket dict, same proposed values, same text) changes neither the tickets
\* table nor the notes.
C8_RetryIsIdempotent ==
    [][(/\ last'.op \in {"close", "save"}
        /\ last.op = last'.op
        /\ last.user = last'.user
        /\ last.req = last'.req)
        => (tickets' = tickets /\ notes' = notes)]_vars

\* C9: every row a step appends renders as the kind its writer meant: SYSTEM for
\* a close and for field changes, EMAIL-OUT for a reply, USER-NOTE for a staff note.
C9_RenderKindIsWriterKind ==
    [][\A i \in 1..Len(NewRows) :
        RenderKind(NewRows[i].note_text) =
            IF last'.op = "reply" THEN "EMAIL-OUT"
            ELSE IF last'.op = "save" /\ last'.req.text # <<>> /\ i = Len(NewRows)
                 THEN "USER-NOTE"
            ELSE "SYSTEM"]_vars

\* C10: after a save the stored status, priority and assignee are the values that
\* save submitted, whatever another dialog wrote since the ticket was loaded, and
\* the notes written before it are all still there.
C10_LastWriterWins ==
    [][(last'.op = "save")
        => /\ tickets'[last'.req.ticket.id].status = last'.req.new_status
           /\ tickets'[last'.req.ticket.id].priority = last'.req.new_priority
           /\ tickets'[last'.req.ticket.id].assigned_to = last'.req.new_assign
           /\ AppendOnly]_vars

\* two users loaded the ticket as New; the admin's save set it Open, the agent's
\* save changed only the priority, and the status is New again
C10_Witness ==
    /\ last.op = "save"
    /\ last.user = AgentEmail
    /\ last.req.ticket.status = "New"
    /\ Len(notes) = 2
    /\ notes[1].author_email = AdminEmail
    /\ Len(notes[1].note_text) >= 7
    /\ SubSeq(notes[1].note_text, 3, 7) = <<"Updated:", "Status:", "New", "->", "Open">>
    /\ notes[2].author_email = AgentEmail
    /\ Len(notes[2].note_text) >= 4
    /\ SubSeq(notes[2].note_text, 3, 4) = <<"Updated:", "Priority:">>
    /\ tickets[last.req.ticket.id].status = "New"

====
